---- MODULE Spec2Model ----
(***************************************************************************)
(* A model of oci-wasm: the component descriptor extraction                *)
(* (src/src/component.rs), the WasmConfig envelope and its JSON form       *)
(* (src/src/config.rs) and the registry client wrapper                     *)
(* (src/src/client.rs).                                                    *)
(*                                                                         *)
(* Strings are sequences of one-character strings, so that formatting,     *)
(* concatenation and comparison are computed rather than assumed.          *)
(***************************************************************************)
EXTENDS Integers, Sequences, FiniteSets, TLC

VARIABLES resolve, raw, config, registry, ret

vars == <<resolve, raw, config, registry, ret>>

(***************************************************************************)
(* Bounds of the model.                                                    *)
(***************************************************************************)
\* Largest number of keys (exports plus imports) of the world under study.
MaxKeys == 2
\* Number of world ids of the arena.
MaxWorlds == 2
\* Number of interface ids of the arena.
MaxInterfaces == 2
\* Largest number of layers of an artifact found in the registry.
MaxLayers == 2
\* Largest number of layer digests of a config in hand.
MaxDigests == 2
\* Largest number of exports, and of imports, of a config in hand.
MaxNames == 2

(***************************************************************************)
(* Option and Result values.                                               *)
(***************************************************************************)
None == [some |-> FALSE]
Some(v) == [some |-> TRUE, val |-> v]

Ok(v) == [ok |-> TRUE, val |-> v]
Err(e) == [ok |-> FALSE, err |-> e]

Range(s) == {s[i] : i \in 1..Len(s)}

\* Sequences over S without repetition, of length at most n.
DistinctSeqs(S, n) ==
    UNION {{s \in [1..k -> S] : \A i, j \in 1..k : i # j => s[i] # s[j]} : k \in 0..n}

(***************************************************************************)
(* The constants of the crate (src/src/lib.rs).                            *)
(***************************************************************************)
WASM_MANIFEST_MEDIA_TYPE == "application/vnd.oci.image.manifest.v1+json"
WASM_MANIFEST_CONFIG_MEDIA_TYPE == "application/vnd.wasm.config.v0+json"
WASM_LAYER_MEDIA_TYPE == "application/wasm"
WASM_ARCHITECTURE == "wasm"
MODULE_OS == "wasip1"
COMPONENT_OS == "wasip2"

(***************************************************************************)
(* The interface-resolution graph (wit_parser::Resolve).                   *)
(***************************************************************************)
WorldIds == 0..(MaxWorlds - 1)
InterfaceIds == 0..(MaxInterfaces - 1)
PackageIds == {0}

Letters == <<"i", "j", "k", "l", "m">>
Digits == <<"0", "1", "2", "3", "4", "5", "6", "7", "8", "9">>

\* The local name of interface id, and the name of world id.
InterfaceName(id) == <<Letters[id + 1]>>
WorldName(id) == <<"p", Digits[id + 1]>>

\* semver::Version, rendered major.minor.patch.
VersionText(v) == <<Digits[v.major + 1], ".", Digits[v.minor + 1], ".", Digits[v.patch + 1]>>

Versions == {[major |-> 0, minor |-> 2, patch |-> 0]}

Packages ==
    {[namespace |-> <<"w">>, name |-> <<"h">>, version |-> v] :
        v \in {None} \cup {Some(x) : x \in Versions}}

\* The plain names a world key may carry; the second one spells the qualified
\* name of interface 0 in the unversioned package.
PlainNames == {<<"x">>, <<"w", ":", "h", "/", "i">>}

InterfaceKey(id) == [kind |-> "Interface", id |-> id]
NameKey(s) == [kind |-> "Name", name |-> s]

Keys == {InterfaceKey(id) : id \in InterfaceIds} \cup {NameKey(s) : s \in PlainNames}

\* The export and import keys of a world: an IndexMap has no repeated key.
WorldShapes ==
    {sh \in DistinctSeqs(Keys, MaxKeys) \X DistinctSeqs(Keys, MaxKeys) :
        Len(sh[1]) + Len(sh[2]) <= MaxKeys}

World(id, exports, imports) ==
    [name |-> WorldName(id), exports |-> exports, imports |-> imports,
     package |-> Some(0)]

\* World 0 takes every shape; the other worlds, when present, have a fixed
\* shape whose names no shape of world 0 uses.
OtherExports == <<NameKey(<<"y">>), InterfaceKey(0)>>
OtherImports == <<NameKey(<<"z">>)>>

WorldTables ==
    {[id \in D |-> IF id = 0 THEN World(0, sh[1], sh[2])
                             ELSE World(id, OtherExports, OtherImports)] :
        D \in SUBSET WorldIds, sh \in WorldShapes}

\* Every interface of the arena belongs to package 0; an id may be missing.
InterfaceTables ==
    {[id \in D |-> [name |-> InterfaceName(id), package |-> 0]] :
        D \in SUBSET InterfaceIds}

\* Package 0 is missing, unversioned or versioned.
PackageTables ==
    {[id \in D |-> p] : D \in SUBSET PackageIds, p \in Packages}

Graphs ==
    {[worlds |-> wt, interfaces |-> it, packages |-> pt] :
        wt \in WorldTables, it \in InterfaceTables, pt \in PackageTables}

EmptyGraph ==
    [worlds |-> [id \in {} |-> 0], interfaces |-> [id \in {} |-> 0],
     packages |-> [id \in {} |-> 0]]

(***************************************************************************)
(* The name resolver.                                                      *)
(***************************************************************************)
\* Resolve::id_of_name: "{namespace}:{name}/{interface}" and "@{version}"
\* when the package has one.
IdOfName(r, pkg, name) ==
    LET p == r.packages[pkg]
        base == p.namespace \o <<":">> \o p.name \o <<"/">> \o name
    IN  IF p.version.some THEN base \o <<"@">> \o VersionText(p.version.val) ELSE base

\* Resolve::id_of: nothing for an interface, or an owning package, that the
\* graph does not hold.
IdOf(r, id) ==
    IF id \notin DOMAIN r.interfaces THEN None
    ELSE LET iface == r.interfaces[id]
         IN  IF iface.package \notin DOMAIN r.packages THEN None
             ELSE Some(IdOfName(r, iface.package, iface.name))

name_from_key_and_item_Mangled(r, key) ==
    IF key.kind = "Interface" THEN IdOf(r, key.id)
    ELSE IF \E id \in DOMAIN r.interfaces : IdOf(r, id) = Some(key.name)
         THEN None ELSE Some(key.name)

name_from_key_and_item(r, key) ==
    IF key.kind = "Interface" THEN IdOf(r, key.id) ELSE Some(key.name)

(***************************************************************************)
(* Component::from_world.                                                  *)
(***************************************************************************)
\* The collection that ends at the first key without a name (map_while).
RECURSIVE FilterMapKeys_MapWhile(_, _)
FilterMapKeys_MapWhile(r, keys) ==
    IF keys = <<>> THEN <<>>
    ELSE LET n == name_from_key_and_item(r, Head(keys))
         IN  IF n.some THEN <<n.val>> \o FilterMapKeys_MapWhile(r, Tail(keys)) ELSE <<>>

\* keys().filter_map(name_from_key_and_item).collect::<Vec<_>>()
RECURSIVE FilterMapKeys(_, _)
FilterMapKeys(r, keys) ==
    IF keys = <<>> THEN <<>>
    ELSE LET n == name_from_key_and_item(r, Head(keys))
             rest == FilterMapKeys(r, Tail(keys))
         IN  IF n.some THEN <<n.val>> \o rest ELSE rest

\* worlds.iter().find_map(|(id, w)| (id == world_id).then_some(w))
FindWorldAny(r, world_id) ==
    IF DOMAIN r.worlds = {} THEN None
    ELSE Some(r.worlds[CHOOSE id \in DOMAIN r.worlds : \A o \in DOMAIN r.worlds : id <= o])

FindWorld(r, world_id) ==
    IF world_id \in DOMAIN r.worlds THEN Some(r.worlds[world_id]) ELSE None

Component(exports, imports, target) ==
    [exports |-> exports, imports |-> imports, target |-> target]

\* from_world with the two mappings exchanged.
from_world_Swapped(r, world_id) ==
    LET world == FindWorld(r, world_id)
    IN  IF ~world.some THEN Err("component world not found")
        ELSE Ok(Component(FilterMapKeys(r, world.val.imports),
                          FilterMapKeys(r, world.val.exports),
                          None))

\* from_world that gives up on the first key without a name.
from_world_Strict(r, world_id) ==
    LET world == FindWorld(r, world_id)
    IN  IF ~world.some THEN Err("component world not found")
        ELSE IF \E k \in Range(world.val.exports) \cup Range(world.val.imports) :
                    ~name_from_key_and_item(r, k).some
             THEN Err("unresolved interface")
             ELSE Ok(Component(FilterMapKeys(r, world.val.exports),
                               FilterMapKeys(r, world.val.imports),
                               None))

from_world(r, world_id) ==
    LET world == FindWorld(r, world_id)
    IN  IF ~world.some THEN Err("component world not found")
        ELSE Ok(Component(FilterMapKeys(r, world.val.exports),
                          FilterMapKeys(r, world.val.imports),
                          None))

(***************************************************************************)
(* Extraction from a graph held in memory.                                 *)
(***************************************************************************)
NoRaw == [shape |-> "none"]
NoConfig == [present |-> FALSE]
NoCall == [op |-> "none"]
EmptyRegistry == [ref \in {} |-> 0]

InitWorld ==
    /\ resolve \in Graphs
    /\ raw = NoRaw
    /\ config = NoConfig
    /\ registry = EmptyRegistry
    /\ ret = NoCall

\* A caller invokes Component::from_world(&resolve, world_id).
FromWorld(world_id) ==
    /\ ret' = [op |-> "from_world", world_id |-> world_id,
               res |-> from_world(resolve, world_id)]
    /\ UNCHANGED <<resolve, raw, config, registry>>

\* One evaluation of name_from_key_and_item(&resolve, key).
NameFromKeyAndItem(key) ==
    /\ ret' = [op |-> "name_from_key_and_item", key |-> key,
               res |-> name_from_key_and_item(resolve, key)]
    /\ UNCHANGED <<resolve, raw, config, registry>>

NextWorld ==
    \/ \E world_id \in WorldIds : FromWorld(world_id)
    \/ \E key \in Keys : NameFromKeyAndItem(key)

SpecWorld == InitWorld /\ [][NextWorld]_vars

(***************************************************************************)
(* Extraction from raw bytes (the decoder is wit_component::decode).       *)
(***************************************************************************)
\* What a byte buffer decodes to: a component with its world, a binary WIT
\* package with its package, or nothing the decoder accepts.  The decoder
\* designates a world, or a package, of the graph it returns.
\* The graph of a decoded binary is well formed: every interface key of a
\* world names an interface of the graph, and every owning package exists.
WellFormed(g) ==
    /\ \A id \in DOMAIN g.interfaces : g.interfaces[id].package \in DOMAIN g.packages
    /\ \A id \in DOMAIN g.worlds :
           /\ g.worlds[id].package.val \in DOMAIN g.packages
           /\ \A k \in Range(g.worlds[id].exports) \cup Range(g.worlds[id].imports) :
                  k.kind = "Interface" => k.id \in DOMAIN g.interfaces

RawsOf(g) ==
    {[shape |-> "component", resolve |-> g, world |-> w] : w \in DOMAIN g.worlds}
    \cup {[shape |-> "package", resolve |-> g, package |-> pk] : pk \in DOMAIN g.packages}

MalformedRaws == {[shape |-> "malformed", bytes |-> b] : b \in {1, 2}}

\* wit_component::decode
decode(b) ==
    IF b.shape = "malformed" THEN Err("decoder rejected the bytes") ELSE Ok(b)

\* anyhow's .context(msg) on a failed Result: msg in front, the cause kept.
Context(e, msg) == [ok |-> FALSE, err |-> msg, source |-> e.err]

NotAComponent ==
    "Found a binary wit package, not a component. Please use the from_wit_package or from_raw_wit_package functions"
NotAPackage ==
    "Found a component, not a binary wit package. Please use the from_component or from_raw_component functions"
DecodeFailed == "failed to decode WIT component"

\* from_raw_component reporting a package as a decode failure.
from_raw_component_Conflated(b) ==
    LET d == decode(b)
    IN  IF ~d.ok THEN Context(d, DecodeFailed)
        ELSE IF d.val.shape = "package" THEN Err(DecodeFailed)
        ELSE from_world(d.val.resolve, d.val.world)

\* Component::from_raw_component
from_raw_component(b) ==
    LET d == decode(b)
    IN  IF ~d.ok THEN Context(d, DecodeFailed)
        ELSE IF d.val.shape = "package" THEN Err(NotAComponent)
        ELSE from_world(d.val.resolve, d.val.world)

\* worlds.iter().find_map(|(id, w)| (w.name == world_name).then_some(id))
FindWorldByName(r, world_name) ==
    LET hits == {id \in DOMAIN r.worlds : r.worlds[id].name = world_name}
    IN  IF hits = {} THEN None
        ELSE Some(CHOOSE id \in hits : \A o \in hits : id <= o)

\* Component::from_raw_wit_package
from_raw_wit_package(b, world_name) ==
    LET d == decode(b)
    IN  IF ~d.ok THEN Context(d, DecodeFailed)
        ELSE IF d.val.shape = "component" THEN Err(NotAPackage)
        ELSE LET world == FindWorldByName(d.val.resolve, world_name)
             IN  IF ~world.some THEN Err("Unable to find matching world for name")
                 ELSE from_world(d.val.resolve, world.val)

\* sha256_digest: "sha256:" and the hex digest, which stands for the bytes.
sha256_digest(b) == [algorithm |-> "sha256:", hex |-> b]

ImageLayer(data, media_type) ==
    [data |-> data, media_type |-> media_type, annotations |-> None]

WasmConfig(created, author, architecture, os, layer_digests, component) ==
    [created |-> created, author |-> author, architecture |-> architecture,
     os |-> os, layer_digests |-> layer_digests, component |-> component]

\* WasmConfig::from_raw_component
WasmConfig_from_raw_component(b, author, now) ==
    LET component == from_raw_component(b)
    IN  IF ~component.ok THEN component
        ELSE Ok(<<WasmConfig(now, author, WASM_ARCHITECTURE, COMPONENT_OS,
                             <<sha256_digest(b)>>, Some(component.val)),
                  ImageLayer(b, WASM_LAYER_MEDIA_TYPE)>>)

\* WasmConfig::from_raw_module
WasmConfig_from_raw_module(b, author, now) ==
    Ok(<<WasmConfig(now, author, WASM_ARCHITECTURE, MODULE_OS,
                    <<sha256_digest(b)>>, None),
         ImageLayer(b, WASM_LAYER_MEDIA_TYPE)>>)

Times == {0, 1}
Authors == {None, Some(<<"B">>)}
WorldNames == {WorldName(id) : id \in WorldIds} \cup {<<"n">>}

InitDecode ==
    /\ \/ raw \in MalformedRaws
       \/ \E g \in Graphs : WellFormed(g) /\ raw \in RawsOf(g)
    /\ resolve = EmptyGraph
    /\ config = NoConfig
    /\ registry = EmptyRegistry
    /\ ret = NoCall

ComponentFromRawComponent ==
    /\ ret' = [op |-> "Component::from_raw_component",
               res |-> from_raw_component(raw)]
    /\ UNCHANGED <<resolve, raw, config, registry>>

ComponentFromRawWitPackage(world_name) ==
    /\ ret' = [op |-> "Component::from_raw_wit_package", world_name |-> world_name,
               res |-> from_raw_wit_package(raw, world_name)]
    /\ UNCHANGED <<resolve, raw, config, registry>>

WasmConfigFromRawComponent(author, now) ==
    /\ ret' = [op |-> "WasmConfig::from_raw_component",
               res |-> WasmConfig_from_raw_component(raw, author, now)]
    /\ UNCHANGED <<resolve, raw, config, registry>>

WasmConfigFromRawModule(author, now) ==
    /\ ret' = [op |-> "WasmConfig::from_raw_module",
               res |-> WasmConfig_from_raw_module(raw, author, now)]
    /\ UNCHANGED <<resolve, raw, config, registry>>

NextDecode ==
    \/ ComponentFromRawComponent
    \/ \E world_name \in WorldNames : ComponentFromRawWitPackage(world_name)
    \/ \E author \in Authors, now \in Times : WasmConfigFromRawComponent(author, now)
    \/ \E author \in Authors, now \in Times : WasmConfigFromRawModule(author, now)

SpecDecode == InitDecode /\ [][NextDecode]_vars

(***************************************************************************)
(* The WasmConfig and its JSON form (serde with rename_all = camelCase).   *)
(***************************************************************************)
JNull == [t |-> "null"]
JString(v) == [t |-> "string", v |-> v]
JArray(v) == [t |-> "array", v |-> v]
JObject(v) == [t |-> "object", v |-> v]

\* Option<String> as JSON: null for None.
JOption(o) == IF o.some THEN JString(o.val) ELSE JNull

\* Vec<String> as JSON.
JStrings(v) == JArray([i \in 1..Len(v) |-> JString(v[i])])

\* DateTime<Utc> is written as an RFC 3339 string.
Rfc3339(created) == [rfc3339 |-> created]

\* Serialize for Component: the fields in declaration order.
ComponentToJson(c) ==
    JObject(<< <<"exports", JStrings(c.exports)>>,
               <<"imports", JStrings(c.imports)>>,
               <<"target", JOption(c.target)>> >>)

\* Serialize for WasmConfig: camelCase keys, the fields in declaration order.
WasmConfigToJson(c) ==
    JObject(<< <<"created", JString(Rfc3339(c.created))>>,
               <<"author", JOption(c.author)>>,
               <<"architecture", JString(c.architecture)>>,
               <<"os", JString(c.os)>>,
               <<"layerDigests", JStrings(c.layer_digests)>>,
               <<"component", IF c.component.some THEN ComponentToJson(c.component.val)
                                                  ELSE JNull>> >>)

Config(data, media_type) ==
    [data |-> data, media_type |-> media_type, annotations |-> None]

\* to_config that writes the envelope without the component information.
to_config_NoComponent(c) ==
    Ok(Config(WasmConfigToJson([c EXCEPT !.component = None]),
              WASM_MANIFEST_CONFIG_MEDIA_TYPE))

\* impl ToConfig for WasmConfig
to_config(c) == Ok(Config(WasmConfigToJson(c), WASM_MANIFEST_CONFIG_MEDIA_TYPE))

\* The value of the first member named key of a JSON object, if any.
Member(obj, key) ==
    LET hits == {i \in 1..Len(obj.v) : obj.v[i][1] = key}
    IN  IF hits = {} THEN None
        ELSE Some(obj.v[CHOOSE i \in hits : \A o \in hits : i <= o][2])

IsJStrings(j) == j.t = "array" /\ \A i \in 1..Len(j.v) : j.v[i].t = "string"
FromJStrings(j) == [i \in 1..Len(j.v) |-> j.v[i].v]

\* A member that must be a string.
BadString(m) == ~m.some \/ m.val.t # "string"
\* A member that must be an array of strings.
BadStrings(m) == ~m.some \/ ~IsJStrings(m.val)
\* A member that may be missing or null, and is a string otherwise.
BadOption(m) == m.some /\ m.val.t \notin {"null", "string"}
FromJOption(m) == IF m.some /\ m.val.t = "string" THEN Some(m.val.v) ELSE None

\* Deserialize for Component
ComponentFromJson(j) ==
    IF j.t # "object" THEN Err("invalid type")
    ELSE LET exports == Member(j, "exports")
             imports == Member(j, "imports")
             target == Member(j, "target")
         IN  IF BadStrings(exports) \/ BadStrings(imports) \/ BadOption(target)
             THEN Err("missing field or invalid type")
             ELSE Ok(Component(FromJStrings(exports.val), FromJStrings(imports.val),
                               FromJOption(target)))

\* Deserialize for WasmConfig
WasmConfigFromJson(j) ==
    IF j.t # "object" THEN Err("invalid type")
    ELSE LET created == Member(j, "created")
             author == Member(j, "author")
             architecture == Member(j, "architecture")
             os == Member(j, "os")
             layer_digests == Member(j, "layerDigests")
             component == Member(j, "component")
             inner == IF component.some /\ component.val.t # "null"
                      THEN ComponentFromJson(component.val) ELSE Ok(None)
         IN  IF \/ BadString(created)
                \/ BadOption(author)
                \/ BadString(architecture)
                \/ BadString(os)
                \/ BadStrings(layer_digests)
             THEN Err("missing field or invalid type")
             ELSE IF DOMAIN created.val.v # {"rfc3339"} THEN Err("invalid date")
             ELSE IF ~inner.ok THEN inner
             ELSE Ok(WasmConfig(created.val.v.rfc3339, FromJOption(author),
                                architecture.val.v, os.val.v,
                                FromJStrings(layer_digests.val),
                                IF component.some /\ component.val.t # "null"
                                THEN Some(inner.val) ELSE None))

\* impl TryFrom<Vec<u8>> for WasmConfig (and the three other payload types)
try_from(data) == WasmConfigFromJson(data)

\* Sequences over S of length at most n.
SeqsUpTo(S, n) == UNION {[1..k -> S] : k \in 0..n}

DigestPool == {sha256_digest([shape |-> "malformed", bytes |-> b]) : b \in {1, 2}}
NamePool == {<<"x">>, <<"w", ":", "h", "/", "i">>}

ComponentInfos ==
    {Component(e, i, t) :
        e \in SeqsUpTo(NamePool, MaxNames), i \in SeqsUpTo(NamePool, MaxNames),
        t \in {None, Some(<<"t">>)}}

WasmConfigs ==
    {WasmConfig(created, author, architecture, os, layer_digests, component) :
        created \in Times, author \in Authors,
        architecture \in {WASM_ARCHITECTURE, "amd64"},
        os \in {MODULE_OS, COMPONENT_OS},
        layer_digests \in SeqsUpTo(DigestPool, MaxDigests),
        component \in {None} \cup {Some(c) : c \in ComponentInfos}}

\* Payloads no WasmConfig serializes to: an OCI image config, and an envelope
\* whose digests sit under the snake_case key.
ForeignPayloads ==
    {JObject(<< <<"architecture", JString("amd64")>>, <<"os", JString("linux")>> >>),
     JObject(<< <<"created", JString(Rfc3339(0))>>,
                <<"architecture", JString(WASM_ARCHITECTURE)>>,
                <<"os", JString(MODULE_OS)>>,
                <<"layer_digests", JStrings(<<>>)>> >>),
     JString(<<"x">>)}

InitConfig ==
    /\ config \in WasmConfigs
    /\ resolve = EmptyGraph
    /\ raw = NoRaw
    /\ registry = EmptyRegistry
    /\ ret = NoCall

\* config.to_config()
ToConfig ==
    /\ ret' = [op |-> "to_config", res |-> to_config(config)]
    /\ UNCHANGED <<resolve, raw, config, registry>>

\* WasmConfig::try_from on the payload to_config has just returned.
TryFromConfig ==
    /\ ret.op = "to_config"
    /\ ret.res.ok
    /\ ret' = [op |-> "try_from", of |-> "to_config",
               res |-> try_from(ret.res.val.data)]
    /\ UNCHANGED <<resolve, raw, config, registry>>

\* WasmConfig::try_from on a payload of another origin.
TryFromForeign(data) ==
    /\ ret' = [op |-> "try_from", of |-> "foreign", res |-> try_from(data)]
    /\ UNCHANGED <<resolve, raw, config, registry>>

NextConfig ==
    \/ ToConfig
    \/ TryFromConfig
    \/ \E data \in ForeignPayloads : TryFromForeign(data)

SpecConfig == InitConfig /\ [][NextConfig]_vars

(***************************************************************************)
(* The registry and the client under WasmClient (oci_client::Client).      *)
(***************************************************************************)
Refs == {"r1", "r2"}

TAR_LAYER_MEDIA_TYPE == "application/vnd.oci.image.layer.v1.tar+gzip"
OCI_CONFIG_MEDIA_TYPE == "application/vnd.oci.image.config.v1+json"
DOCKER_MANIFEST_MEDIA_TYPE == "application/vnd.docker.distribution.manifest.v2+json"

\* The descriptor a manifest holds of a blob.
Descriptor(media_type, data) == [media_type |-> media_type, digest |-> sha256_digest(data)]

\* OciImageManifest::build(&layers, &config, annotations)
ManifestBuild(layers, cfg, annotations) ==
    [media_type |-> None,
     config |-> Descriptor(cfg.media_type, cfg.data),
     layers |-> [i \in 1..Len(layers) |-> Descriptor(layers[i].media_type, layers[i].data)],
     annotations |-> annotations]

\* What the registry keeps under a reference: the manifest and the blobs it
\* names.  pushed remembers the arguments of the WasmClient::push that wrote
\* the entry, and is None for an entry of another origin.
Artifact(manifest, cfg, layers, pushed) ==
    [manifest |-> manifest, config |-> cfg, layers |-> layers, pushed |-> pushed]

LayerBytes == {[shape |-> "malformed", bytes |-> b] : b \in {1, 2}}

\* The layers of an artifact some other client has stored.
ForeignLayerLists ==
    {[i \in 1..Len(mts) |-> ImageLayer([shape |-> "malformed", bytes |-> i], mts[i])] :
        mts \in SeqsUpTo({WASM_LAYER_MEDIA_TYPE, TAR_LAYER_MEDIA_TYPE}, MaxLayers)}

ForeignConfigs ==
    {Config(data, mt) :
        data \in {WasmConfigToJson(WasmConfig(0, None, WASM_ARCHITECTURE, MODULE_OS, <<>>, None)),
                  JObject(<< <<"architecture", JString("amd64")>>, <<"os", JString("linux")>> >>)},
        mt \in {WASM_MANIFEST_CONFIG_MEDIA_TYPE, OCI_CONFIG_MEDIA_TYPE}}

ForeignArtifacts ==
    {Artifact([ManifestBuild(layers, cfg, None) EXCEPT !.media_type = mmt], cfg, layers, None) :
        layers \in ForeignLayerLists, cfg \in ForeignConfigs,
        mmt \in {None, Some(WASM_MANIFEST_MEDIA_TYPE), Some(DOCKER_MANIFEST_MEDIA_TYPE)}}

\* Client::pull(image, auth, accepted_media_types)
ClientPull(reg, image, accepted) ==
    IF image \notin DOMAIN reg THEN Err("manifest unknown")
    ELSE LET a == reg[image]
         IN  IF a.manifest.layers = <<>> THEN Err("PullNoLayersError")
             ELSE IF \E i \in 1..Len(a.manifest.layers) :
                         a.manifest.layers[i].media_type \notin accepted
                  THEN Err("IncompatibleLayerMediaTypeError")
             ELSE Ok([layers |-> a.layers,
                      config |-> [a.config EXCEPT !.media_type = a.manifest.config.media_type],
                      manifest |-> Some(a.manifest)])

\* Client::pull_manifest_and_config(image, auth)
ClientPullManifestAndConfig(reg, image) ==
    IF image \notin DOMAIN reg THEN Err("manifest unknown")
    ELSE Ok([manifest |-> reg[image].manifest,
             digest |-> sha256_digest(reg[image].manifest),
             config |-> reg[image].config.data])

OneLayerError == "Wasm components must have exactly one layer"
ConfigTypeError == "Wasm components must have a config of type"
ManifestTypeError == "Wasm components must have a manifest of type"

\* WasmClient::pull
pull(reg, image) ==
    LET image_data == ClientPull(reg, image, {WASM_LAYER_MEDIA_TYPE})
    IN  IF ~image_data.ok THEN image_data
        ELSE IF Len(image_data.val.layers) # 1 THEN Err(OneLayerError)
        ELSE IF image_data.val.config.media_type # WASM_MANIFEST_CONFIG_MEDIA_TYPE
             THEN Err(ConfigTypeError)
        ELSE image_data

\* manifest.media_type.as_deref().unwrap_or_default()
UnwrapOrDefault(o) == IF o.some THEN o.val ELSE ""

\* WasmClient::pull_manifest_and_config
pull_manifest_and_config(reg, image) ==
    LET got == ClientPullManifestAndConfig(reg, image)
    IN  IF ~got.ok THEN got
        ELSE IF Len(got.val.manifest.layers) # 1 THEN Err(OneLayerError)
        ELSE IF UnwrapOrDefault(got.val.manifest.media_type) # WASM_MANIFEST_MEDIA_TYPE
             THEN Err(ManifestTypeError)
        ELSE IF got.val.manifest.config.media_type # WASM_MANIFEST_CONFIG_MEDIA_TYPE
             THEN Err(ConfigTypeError)
        ELSE LET cfg == try_from(got.val.config)
             IN  IF ~cfg.ok THEN cfg
                 ELSE Ok([manifest |-> got.val.manifest, config |-> cfg.val,
                          digest |-> got.val.digest])

\* impl ToConfig for AnnotatedWasmConfig
annotated_to_config(c, annotations) ==
    LET cfg == to_config(c)
    IN  IF ~cfg.ok THEN cfg ELSE Ok([cfg.val EXCEPT !.annotations = Some(annotations)])

\* The manifest and the blobs WasmClient::push hands to Client::push.
PushedArtifact(component_layer, cfg, annotations, pushed) ==
    LET layers == <<component_layer>>
        manifest == [ManifestBuild(layers, cfg, annotations)
                         EXCEPT !.media_type = Some(WASM_MANIFEST_MEDIA_TYPE)]
    IN  Artifact(manifest, cfg, layers, pushed)

Annotations == [k \in {"org.opencontainers.image.title"} |-> <<"t">>]

\* The layers and the configs a caller hands to push.
PushLayers ==
    {ImageLayer(b, mt) : b \in LayerBytes, mt \in {WASM_LAYER_MEDIA_TYPE, TAR_LAYER_MEDIA_TYPE}}

PushConfigs ==
    {WasmConfig_from_raw_module(b, None, 0).val[1] : b \in LayerBytes}

InitRegistry ==
    /\ \/ registry = EmptyRegistry
       \/ \E image \in Refs, a \in ForeignArtifacts : registry = [r \in {image} |-> a]
    /\ resolve = EmptyGraph
    /\ raw = NoRaw
    /\ config = NoConfig
    /\ ret = NoCall

\* WasmClient::pull(image, auth)
Pull(image) ==
    /\ ret' = [op |-> "pull", image |-> image, res |-> pull(registry, image)]
    /\ UNCHANGED <<resolve, raw, config, registry>>

\* WasmClient::pull_manifest_and_config(image, auth)
PullManifestAndConfig(image) ==
    /\ ret' = [op |-> "pull_manifest_and_config", image |-> image,
               res |-> pull_manifest_and_config(registry, image)]
    /\ UNCHANGED <<resolve, raw, config, registry>>

\* WasmClient::push(image, auth, component_layer, config, annotations), where
\* a caller with annotations passes config.with_annotations(annotations) as
\* well; the registry accepts the upload or refuses it.
Push(image, component_layer, c, annotations) ==
    LET cfg == IF annotations.some THEN annotated_to_config(c, annotations.val)
                                   ELSE to_config(c)
        pushed == Some([layer |-> component_layer, config |-> c])
    IN  /\ cfg.ok
        /\ \/ /\ registry' = [r \in DOMAIN registry \cup {image} |->
                                 IF r = image
                                 THEN PushedArtifact(component_layer, cfg.val, annotations, pushed)
                                 ELSE registry[r]]
              /\ ret' = [op |-> "push", image |-> image, res |-> Ok("PushResponse")]
           \/ /\ registry' = registry
              /\ ret' = [op |-> "push", image |-> image, res |-> Err("registry refused")]
        /\ UNCHANGED <<resolve, raw, config>>

NextRegistry ==
    \/ \E image \in Refs : Pull(image)
    \/ \E image \in Refs : PullManifestAndConfig(image)
    \/ \E image \in Refs, component_layer \in PushLayers, c \in PushConfigs,
          annotations \in {None, Some(Annotations)} :
          Push(image, component_layer, c, annotations)

SpecRegistry == InitRegistry /\ [][NextRegistry]_vars

(***************************************************************************)
(* Properties of the extraction from a world.                              *)
(***************************************************************************)
\* C1: from_world fails exactly when world_id names no world of the graph;
\* the failure is the not-found error and carries no descriptor, and every
\* success carries one.
C1_ErrorIffWorldAbsent ==
    ret.op = "from_world" =>
        /\ ret.res.ok <=> ret.world_id \in DOMAIN resolve.worlds
        /\ ret.res.ok => DOMAIN ret.res.val = {"exports", "imports", "target"}
        /\ ~ret.res.ok => /\ ret.res.err = "component world not found"
                          /\ "val" \notin DOMAIN ret.res

\* The world is missing while the graph holds other worlds.
C1_Witness ==
    /\ ret.op = "from_world"
    /\ ~ret.res.ok
    /\ ret.world_id \notin DOMAIN resolve.worlds
    /\ DOMAIN resolve.worlds # {}

\* The names the keys of one mapping resolve to.
ResolvedNames(r, keys) ==
    {name_from_key_and_item(r, k).val :
        k \in {x \in Range(keys) : name_from_key_and_item(r, x).some}}

\* C2: the exports of the descriptor are, as a set, the resolved names of
\* the world's export keys, its imports those of the world's import keys,
\* and its target is absent.
C2_ExactlyTheWorldsNames ==
    (ret.op = "from_world" /\ ret.res.ok) =>
        LET world == resolve.worlds[ret.world_id]
        IN  /\ Range(ret.res.val.exports) = ResolvedNames(resolve, world.exports)
            /\ Range(ret.res.val.imports) = ResolvedNames(resolve, world.imports)
            /\ ret.res.val.target = None

\* Exports and imports differ, and another world of the graph has names of
\* its own.
C2_Witness ==
    /\ ret.op = "from_world"
    /\ ret.res.ok
    /\ ret.res.val.exports # <<>>
    /\ ret.res.val.imports # <<>>
    /\ Range(ret.res.val.exports) \cap Range(ret.res.val.imports) = {}
    /\ \E o \in DOMAIN resolve.worlds :
           /\ o # ret.world_id
           /\ ResolvedNames(resolve, resolve.worlds[o].exports)
                  \ Range(ret.res.val.exports) # {}

Last(s) == s[Len(s)]

\* C3: a plain name resolves to itself whatever the graph holds; an interface
\* key whose interface and package exist resolves to
\* namespace:package/interface, followed by @version exactly when the package
\* has a version.
C3_ResolverFormat ==
    ret.op = "name_from_key_and_item" =>
        /\ ret.key.kind = "Name" => ret.res = Some(ret.key.name)
        /\ (/\ ret.key.kind = "Interface"
            /\ ret.key.id \in DOMAIN resolve.interfaces
            /\ resolve.interfaces[ret.key.id].package \in DOMAIN resolve.packages) =>
               LET iface == resolve.interfaces[ret.key.id]
                   p == resolve.packages[iface.package]
                   base == p.namespace \o <<":">> \o p.name \o <<"/">> \o iface.name
               IN  /\ ret.res.some
                   /\ p.version.some =>
                          ret.res.val = base \o <<"@">> \o VersionText(p.version.val)
                   /\ ~p.version.some =>
                          /\ ret.res.val = base
                          /\ Last(ret.res.val) # "@"
                   /\ ("@" \in Range(ret.res.val)) <=> p.version.some
                   /\ (ret.key.id = 0 /\ p.version = Some([major |-> 0, minor |-> 2, patch |-> 0])) =>
                          ret.res.val = <<"w", ":", "h", "/", "i", "@", "0", ".", "2", ".", "0">>

\* An interface key of a versioned package has been resolved, in a graph
\* where a plain name spells the unversioned name of the same interface.
C3_Witness ==
    /\ ret.op = "name_from_key_and_item"
    /\ ret.key.kind = "Interface"
    /\ ret.res.some
    /\ "@" \in Range(ret.res.val)
    /\ \E s \in PlainNames : s \o <<"@">> \o VersionText([major |-> 0, minor |-> 2, patch |-> 0]) = ret.res.val

Unresolvable(r, keys) == {k \in Range(keys) : ~name_from_key_and_item(r, k).some}
Resolvable(r, keys) == {k \in Range(keys) : name_from_key_and_item(r, k).some}

\* C4: when a mapping of the world holds an interface key whose interface or
\* package is missing, from_world still succeeds; the key gives no name and
\* each other key of the mapping gives its own.
C4_MissingReferenceTolerated ==
    (/\ ret.op = "from_world"
     /\ ret.world_id \in DOMAIN resolve.worlds
     /\ LET world == resolve.worlds[ret.world_id]
        IN  Unresolvable(resolve, world.exports) \cup Unresolvable(resolve, world.imports) # {}) =>
        LET world == resolve.worlds[ret.world_id]
        IN  /\ ret.res.ok
            /\ Range(ret.res.val.exports) = ResolvedNames(resolve, world.exports)
            /\ Range(ret.res.val.imports) = ResolvedNames(resolve, world.imports)
            /\ Len(ret.res.val.exports) = Cardinality(Resolvable(resolve, world.exports))
            /\ Len(ret.res.val.imports) = Cardinality(Resolvable(resolve, world.imports))

\* One export key has no name and another one has.
C4_Witness ==
    /\ ret.op = "from_world"
    /\ ret.world_id \in DOMAIN resolve.worlds
    /\ ret.res.ok
    /\ LET world == resolve.worlds[ret.world_id]
       IN  /\ Unresolvable(resolve, world.exports) # {}
           /\ Resolvable(resolve, world.exports) # {}
           /\ Len(ret.res.val.exports) = 1

\* No name occurs twice in the sequence.
NoRepeat(s) == \A i, j \in 1..Len(s) : i # j => s[i] # s[j]

\* C11: the exports of a descriptor from_world returns hold no name twice,
\* and neither do its imports, also when a plain-name key and an interface
\* key of one mapping resolve to the same string.
C11_NoDuplicateNames ==
    (ret.op = "from_world" /\ ret.res.ok) =>
        /\ NoRepeat(ret.res.val.exports)
        /\ NoRepeat(ret.res.val.imports)

\* The orders in which the keys of one mapping can be iterated.
KeyOrders(keys) == {t \in [1..Len(keys) -> Range(keys)] : Range(t) = Range(keys)}

\* The world with its two mappings iterated in any order.
WorldOrders(w) ==
    {[w EXCEPT !.exports = e, !.imports = i] :
        e \in KeyOrders(w.exports), i \in KeyOrders(w.imports)}

\* The graphs that differ from g only in the order of the keys of a world.
Reorderings(g) ==
    UNION {{[g EXCEPT !.worlds[id] = w] : w \in WorldOrders(g.worlds[id])} :
              id \in DOMAIN g.worlds}

\* Two results of from_world that agree: the same failure, or descriptors
\* with the same exports and the same imports as sets.
SameDescriptor(a, b) ==
    /\ a.ok = b.ok
    /\ a.ok => /\ Range(a.val.exports) = Range(b.val.exports)
               /\ Range(a.val.imports) = Range(b.val.imports)
    /\ ~a.ok => a.err = b.err

\* The descriptor in hand is the one from_world gives on every reordering.
OrderFree ==
    ret.op = "from_world" =>
        \A g \in Reorderings(resolve) :
            SameDescriptor(from_world(g, ret.world_id), ret.res)

\* C12: a call of from_world leaves the graph as it was; it agrees with the
\* call before it on the same world id, and with the call on any graph that
\* differs only in the order of the keys of one of its worlds.
C12_DeterministicOrderFree ==
    /\ []OrderFree
    /\ [][ret'.op = "from_world" =>
             /\ resolve' = resolve
             /\ (ret.op = "from_world" /\ ret.world_id = ret'.world_id) =>
                    SameDescriptor(ret.res, ret'.res)]_vars

\* A descriptor with two different exports, whose keys have two orders, one
\* of them starting with a key that has no name.
C12_Witness ==
    /\ ret.op = "from_world"
    /\ ret.res.ok
    /\ Len(resolve.worlds[ret.world_id].exports) = 2
    /\ Cardinality(Range(ret.res.val.exports)) + Cardinality(Range(ret.res.val.imports)) >= 1
    /\ Cardinality(Reorderings(resolve)) >= 2
    /\ Unresolvable(resolve, resolve.worlds[ret.world_id].exports) # {}

(***************************************************************************)
(* Properties of the extraction from raw bytes.                            *)
(***************************************************************************)
\* The qualified names a whole package offers: the resolved export keys of
\* its worlds, one name per world, and its own interfaces.
PackageExportNames(r, pkg) ==
    LET worlds == {id \in DOMAIN r.worlds : r.worlds[id].package = Some(pkg)}
        ifaces == {id \in DOMAIN r.interfaces : r.interfaces[id].package = pkg}
    IN  UNION {ResolvedNames(r, r.worlds[id].exports) : id \in worlds}
        \cup {IdOfName(r, pkg, r.worlds[id].name) : id \in worlds}
        \cup {IdOfName(r, pkg, r.interfaces[id].name) : id \in ifaces}

NoDuplicates(s) == \A i, j \in 1..Len(s) : i # j => s[i] # s[j]

\* C5: bytes that decode to a package yield a descriptor whose exports are
\* the union, without repetition, of the resolved exports of the package's
\* worlds, one synthesized name per world and the package's own interfaces,
\* and whose imports are empty.
C5_PackageUnion ==
    (ret.op = "Component::from_raw_component" /\ raw.shape = "package") =>
        /\ ret.res.ok
        /\ Range(ret.res.val.exports) = PackageExportNames(raw.resolve, raw.package)
        /\ NoDuplicates(ret.res.val.exports)
        /\ ret.res.val.imports = <<>>

\* C6: WasmConfig::from_raw_component succeeds on a decoded component and on
\* a decoded package alike, with architecture wasm, os wasip2 and the
\* component information present.
C6_DispatchOnShape ==
    (ret.op = "WasmConfig::from_raw_component" /\ raw.shape \in {"component", "package"}) =>
        /\ ret.res.ok
        /\ ret.res.val[1].architecture = WASM_ARCHITECTURE
        /\ ret.res.val[1].os = COMPONENT_OS
        /\ ret.res.val[1].component.some

C10_RoundTrip ==
    (ret.op = "try_from" /\ ret.of = "to_config") =>
        /\ ret.res.ok
        /\ ret.res.val.author = config.author
        /\ ret.res.val.architecture = config.architecture
        /\ ret.res.val.os = config.os
        /\ ret.res.val.layer_digests = config.layer_digests
        /\ ret.res.val.component.some = config.component.some
        /\ config.component.some =>
               /\ Range(ret.res.val.component.val.exports) = Range(config.component.val.exports)
               /\ Range(ret.res.val.component.val.imports) = Range(config.component.val.imports)
               /\ ret.res.val.component.val.target = config.component.val.target

\* A config with an author, digests, exports, imports and a target has gone
\* through the round trip.
C10_Witness ==
    /\ ret.op = "try_from"
    /\ ret.of = "to_config"
    /\ ret.res.ok
    /\ config.author.some
    /\ config.layer_digests # <<>>
    /\ config.component.some
    /\ config.component.val.exports # <<>>
    /\ config.component.val.imports # <<>>
    /\ config.component.val.target.some

(***************************************************************************)
(* Properties of the registry client.                                      *)
(***************************************************************************)
\* An artifact of exactly one layer whose layer, config and manifest media
\* types are the three constants.
WasmShaped(a) ==
    /\ Len(a.manifest.layers) = 1
    /\ a.manifest.layers[1].media_type = WASM_LAYER_MEDIA_TYPE
    /\ a.manifest.config.media_type = WASM_MANIFEST_CONFIG_MEDIA_TYPE
    /\ a.manifest.media_type = Some(WASM_MANIFEST_MEDIA_TYPE)

\* C8: pull and pull_manifest_and_config succeed only on an artifact of
\* exactly one layer with the three media types, and
\* pull_manifest_and_config rejects any other artifact before it parses
\* the config payload.
C8_OnlyWasmShapedPulled ==
    (ret.op \in {"pull", "pull_manifest_and_config"} /\ ret.image \in DOMAIN registry) =>
        /\ ret.res.ok => WasmShaped(registry[ret.image])
        /\ (ret.op = "pull_manifest_and_config" /\ ~WasmShaped(registry[ret.image])) =>
               /\ ~ret.res.ok
               /\ ret.res.err \in {OneLayerError, ManifestTypeError, ConfigTypeError}

\* C9: once push has written a reference, pull and pull_manifest_and_config
\* of it succeed with one layer of media type application/wasm holding the
\* pushed bytes, the config media type and the manifest media type.
C9_PushThenPull ==
    (/\ ret.op \in {"pull", "pull_manifest_and_config"}
     /\ ret.image \in DOMAIN registry
     /\ registry[ret.image].pushed.some) =>
        /\ ret.res.ok
        /\ ret.op = "pull" =>
               /\ Len(ret.res.val.layers) = 1
               /\ ret.res.val.layers[1].media_type = WASM_LAYER_MEDIA_TYPE
               /\ ret.res.val.layers[1].data = registry[ret.image].pushed.val.layer.data
               /\ ret.res.val.config.media_type = WASM_MANIFEST_CONFIG_MEDIA_TYPE
               /\ ret.res.val.manifest = Some(registry[ret.image].manifest)
               /\ ret.res.val.manifest.val.media_type = Some(WASM_MANIFEST_MEDIA_TYPE)
        /\ ret.op = "pull_manifest_and_config" =>
               /\ Len(ret.res.val.manifest.layers) = 1
               /\ ret.res.val.manifest.layers[1].media_type = WASM_LAYER_MEDIA_TYPE
               /\ ret.res.val.manifest.config.media_type = WASM_MANIFEST_CONFIG_MEDIA_TYPE
               /\ ret.res.val.manifest.media_type = Some(WASM_MANIFEST_MEDIA_TYPE)

\* C13: in every artifact push has written, the layer digests of the config
\* are the digests of the layers of the manifest, in the order of the
\* manifest, whatever layer and config the caller passed.
C13_DigestsMatchLayers ==
    \A image \in DOMAIN registry :
        registry[image].pushed.some =>
            LET a == registry[image]
                cfg == try_from(a.config.data)
            IN  /\ cfg.ok
                /\ cfg.val.layer_digests =
                       [i \in 1..Len(a.manifest.layers) |-> a.manifest.layers[i].digest]

====
